---- MODULE Spec2Model ----
(***************************************************************************)
(* KitaevHamiltonianExperiment (src/mzm-generation/experiment.py): the      *)
(* sweep enumerator circuit_parameters(), the lazy generator _circuits(),   *)
(* circuits(), _generate_circuit() and the functools.lru_cache that wraps   *)
(* _base_circuit.  The cache is one object per class (the decorator is      *)
(* applied to the function in the class body), it is keyed by the call's    *)
(* arguments, self included, and it holds at most maxsize entries.          *)
(***************************************************************************)
EXTENDS Integers, Sequences, FiniteSets, Bags, TLC

VARIABLES
    n_modes,                    \* self.n_modes, per engine instance
    tunneling_values,           \* self.tunneling_values
    superconducting_values,     \* self.superconducting_values
    chemical_potential_values,  \* self.chemical_potential_values
    occupied_orbitals_list,     \* self.occupied_orbitals_list
    cache,        \* the lru_cache of _base_circuit: entries, least recently used first
    diagCalls,    \* bag of <<self, t, s, c, occ>>: runs of the diagonalization, by the call that ran it
    prepCalls,    \* bag of <<self, t, s, c, occ>>: completed FermionicGaussianState constructions
    gen,          \* state of the engine's _circuits() generator object
    pos,          \* records that generator has taken from circuit_parameters()
    out,          \* circuits that generator has yielded
    touched,      \* keys that generator has asked _base_circuit for
    ret,          \* the last call of circuits() or _generate_circuit and its outcome
    failed        \* whether a generation call of the engine has raised

config == <<n_modes, tunneling_values, superconducting_values,
            chemical_potential_values, occupied_orbitals_list>>
vars == <<n_modes, tunneling_values, superconducting_values,
          chemical_potential_values, occupied_orbitals_list,
          cache, diagCalls, prepCalls, gen, pos, out, touched, ret, failed>>

(***************************************************************************)
(* Bounds and program constants.                                           *)
(***************************************************************************)
\* the most often one computation is let run for one key before the model stops
MaxRuns == 2

\* the coupling values a sweep axis is drawn from: 1..MaxValue
MaxValue == 2

\* functools.lru_cache used without arguments: maxsize defaults to 128
maxsize == 128

Engines == {1, 2}

None == [kind |-> "None"]
NoCall == [call |-> "none"]
Raised(err) == [kind |-> "raised", error |-> err]

(***************************************************************************)
(* The collaborators of mzm_generation and the state preparation.          *)
(***************************************************************************)
\* a Pauli string of length n: letter p on the positions of `on`, I elsewhere
PauliString(n, on, p) == [i \in 1..n |-> IF i \in on THEN p ELSE "I"]

\* the labels of an n-mode chain: the local occupation Z_i of every mode,
\* then X_i X_{i+1} of every neighbouring pair
measurement_pauli_strings(n) ==
    [i \in 1..n |-> PauliString(n, {i}, "Z")]
        \o [i \in 1..(n - 1) |-> PauliString(n, {i, i + 1}, "X")]

kitaev_hamiltonian(n, tunneling, superconducting, chemical_potential) ==
    [n_modes |-> n, tunneling |-> tunneling, superconducting |-> superconducting,
     chemical_potential |-> chemical_potential]

diagonalizing_bogoliubov_transform(hamiltonian) ==
    [diagonalizes |-> hamiltonian]

\* the state preparation: every index in range, none twice
FermionicGaussianState(transformation_matrix, occupied_orbitals) ==
    LET n == transformation_matrix.diagonalizes.n_modes
        idx == DOMAIN occupied_orbitals
    IN  IF \/ \E i \in idx : occupied_orbitals[i] < 0 \/ occupied_orbitals[i] >= n
           \/ \E i, j \in idx : i # j /\ occupied_orbitals[i] = occupied_orbitals[j]
        THEN Raised("InvalidOccupationError")
        ELSE [kind |-> "circuit", n_qubits |-> n,
              transformation_matrix |-> transformation_matrix,
              occupied_orbitals |-> occupied_orbitals]

\* a new circuit: base followed by the rotations and measurements of the label
measure_pauli_string(base_circuit, pauli_string) ==
    IF Len(pauli_string) # base_circuit.n_qubits
    THEN Raised("InvalidLabelError")
    ELSE [kind |-> "circuit", base |-> base_circuit, measured |-> pauli_string,
          metadata |-> None]

CircuitParameters(t, s, c, o, b, l) ==
    [tunneling |-> t, superconducting |-> s, chemical_potential |-> c,
     occupied_orbitals |-> o, measurement_basis |-> b, measurement_label |-> l]

(***************************************************************************)
(* functools.lru_cache around _base_circuit.                               *)
(***************************************************************************)
\* a key that leaves the instance out: one entry serves every engine
Key_WithoutSelf(self, tunneling, superconducting, chemical_potential, occupied_orbitals) ==
    <<"KitaevHamiltonianExperiment", tunneling, superconducting,
      chemical_potential, occupied_orbitals>>

\* the cache key of a call: its positional arguments, self first
Key(self, tunneling, superconducting, chemical_potential, occupied_orbitals) ==
    <<self, tunneling, superconducting, chemical_potential, occupied_orbitals>>

CacheKeys(c) == {c[i].key : i \in DOMAIN c}

\* the position of key in the cache, 0 when it is absent
CacheIndex(c, key) ==
    LET at == {i \in DOMAIN c : c[i].key = key}
    IN  IF at = {} THEN 0 ELSE CHOOSE i \in at : TRUE

\* a hit makes the entry the most recently used one
Touch(c, i) ==
    SubSeq(c, 1, i - 1) \o SubSeq(c, i + 1, Len(c)) \o <<c[i]>>

\* a wrapper that stores whatever the wrapped call ended with
Memoize_StoresRaise(c, key, value) ==
    LET grown == Append(c, [key |-> key, value |-> value])
    IN  IF Len(grown) > maxsize THEN Tail(grown) ELSE grown

\* what the wrapper does with the outcome of the wrapped call: an exception
\* passes through and nothing is stored, a result is stored as the most
\* recently used entry and the least recently used one leaves a full cache
Memoize(c, key, value) ==
    IF value.kind = "raised" THEN c
    ELSE LET grown == Append(c, [key |-> key, value |-> value])
         IN  IF Len(grown) > maxsize THEN Tail(grown) ELSE grown

\* mem is the memory a call works on: [cache, diagCalls, prepCalls]
_base_circuit(mem, self, tunneling, superconducting, chemical_potential, occupied_orbitals) ==
    LET key == Key(self, tunneling, superconducting, chemical_potential,
                   occupied_orbitals)
        i == CacheIndex(mem.cache, key)
        hamiltonian == kitaev_hamiltonian(n_modes[self], tunneling,
                                          superconducting, chemical_potential)
        transformation_matrix == diagonalizing_bogoliubov_transform(hamiltonian)
        state == FermionicGaussianState(transformation_matrix, occupied_orbitals)
        call == SetToBag({<<self, tunneling, superconducting, chemical_potential,
                            occupied_orbitals>>})
    IN  IF i # 0
        THEN [mem |-> [mem EXCEPT !.cache = Touch(mem.cache, i)],
              ret |-> mem.cache[i].value, hit |-> TRUE]
        ELSE [mem |-> [cache |-> Memoize(mem.cache, key, state),
                       diagCalls |-> mem.diagCalls (+) call,
                       prepCalls |-> IF state.kind = "raised" THEN mem.prepCalls
                                     ELSE mem.prepCalls (+) call],
              ret |-> state, hit |-> FALSE]

\* a generation that leaves the circuit without its record
_generate_circuit_KeepsNoRecord(mem, self, circuit_params) ==
    LET b == _base_circuit(mem, self, circuit_params.tunneling,
                           circuit_params.superconducting,
                           circuit_params.chemical_potential,
                           circuit_params.occupied_orbitals)
        circuit == measure_pauli_string(b.ret, circuit_params.measurement_label)
    IN  IF b.ret.kind = "raised" THEN [mem |-> b.mem, ret |-> b.ret]
        ELSE IF circuit_params.measurement_basis = "pauli"
        THEN [mem |-> b.mem, ret |-> circuit]
        ELSE [mem |-> b.mem, ret |-> None]

_generate_circuit(mem, self, circuit_params) ==
    LET b == _base_circuit(mem, self, circuit_params.tunneling,
                           circuit_params.superconducting,
                           circuit_params.chemical_potential,
                           circuit_params.occupied_orbitals)
        circuit == measure_pauli_string(b.ret, circuit_params.measurement_label)
    IN  IF b.ret.kind = "raised" THEN [mem |-> b.mem, ret |-> b.ret]
        ELSE IF circuit_params.measurement_basis = "pauli"
        THEN IF circuit.kind = "raised" THEN [mem |-> b.mem, ret |-> circuit]
             ELSE [mem |-> b.mem,
                   ret |-> [circuit EXCEPT !.metadata = [params |-> circuit_params]]]
        ELSE [mem |-> b.mem, ret |-> None]

(***************************************************************************)
(* circuit_parameters(): itertools.product of the four axes, the labels    *)
(* in the innermost loop.                                                  *)
(***************************************************************************)
\* the nest of loops: the first axis is the outermost loop, chosen holds the
\* values of the loops already entered, and the innermost turn builds one
\* record (an axis is halved to keep the evaluation shallow)
RECURSIVE product(_, _)
product(axes, chosen) ==
    IF Len(axes) = 0
    THEN <<CircuitParameters(chosen[1], chosen[2], chosen[3], chosen[4],
                             "pauli", chosen[5])>>
    ELSE IF Len(axes[1]) = 0 THEN <<>>
    ELSE IF Len(axes[1]) = 1
    THEN product(Tail(axes), Append(chosen, axes[1][1]))
    ELSE product(<<SubSeq(axes[1], 1, Len(axes[1]) \div 2)>> \o Tail(axes),
                 chosen)
            \o product(<<SubSeq(axes[1], (Len(axes[1]) \div 2) + 1,
                                Len(axes[1]))>> \o Tail(axes), chosen)

\* the four axes and, innermost, the labels
sweep_records(tv, sv, cv, ol, labels) ==
    product(<<tv, sv, cv, ol, labels>>, <<>>)

\* an enumeration that loses the first label of every combination
circuit_parameters_SkipsLabel(self) ==
    sweep_records(tunneling_values[self], superconducting_values[self],
                  chemical_potential_values[self], occupied_orbitals_list[self],
                  Tail(measurement_pauli_strings(n_modes[self])))

\* the whole sweep of one label after the whole sweep of the label before it
RECURSIVE LabelByLabel(_, _)
LabelByLabel(self, labels) ==
    IF labels = <<>> THEN <<>>
    ELSE sweep_records(tunneling_values[self], superconducting_values[self],
                       chemical_potential_values[self],
                       occupied_orbitals_list[self], <<Head(labels)>>)
            \o LabelByLabel(self, Tail(labels))

\* an enumeration with the label loop outermost
circuit_parameters_LabelSlowest(self) ==
    LabelByLabel(self, measurement_pauli_strings(n_modes[self]))

circuit_parameters(self) ==
    sweep_records(tunneling_values[self], superconducting_values[self],
                  chemical_potential_values[self], occupied_orbitals_list[self],
                  measurement_pauli_strings(n_modes[self]))

\* one turn of the loop of _circuits() inside list(): nothing more runs once a
\* record has raised
Turn(before, self, circuit_params) ==
    LET g == _generate_circuit(before.mem, self, circuit_params)
    IN  IF before.ret.kind = "raised" THEN before
        ELSE IF g.ret.kind = "raised" THEN [mem |-> g.mem, ret |-> g.ret]
        ELSE [mem |-> g.mem,
              ret |-> [kind |-> "list", items |-> Append(before.ret.items, g.ret)]]

\* the turns for the records lo..hi, in order (the range is halved, and the
\* first half is finished before the second starts, to keep the evaluation
\* shallow)
RECURSIVE Turns(_, _, _, _, _)
Then(done, self, recs, lo, hi) ==
    IF done.ret.kind = "raised" THEN done ELSE Turns(done, self, recs, lo, hi)

Turns(before, self, recs, lo, hi) ==
    IF lo > hi THEN before
    ELSE IF lo = hi THEN Turn(before, self, recs[lo])
    ELSE Then(Turns(before, self, recs, lo, (lo + hi) \div 2),
              self, recs, ((lo + hi) \div 2) + 1, hi)

\* list(self._circuits()) from record `from` on: the circuits in order, or the
\* exception of the first record that raises
Drain(mem, self, recs, from, acc) ==
    Turns([mem |-> mem, ret |-> [kind |-> "list", items |-> acc]],
          self, recs, from, Len(recs))

KeyOf(self, p) ==
    <<self, p.tunneling, p.superconducting, p.chemical_potential,
      p.occupied_orbitals>>

Memory == [cache |-> cache, diagCalls |-> diagCalls, prepCalls |-> prepCalls]

\* no call is let run more than MaxRuns times for one key
Capped(mem) ==
    \A k \in BagToSet(mem.diagCalls) : CopiesIn(k, mem.diagCalls) <= MaxRuns

Commit(mem) ==
    /\ Capped(mem)
    /\ cache' = mem.cache
    /\ diagCalls' = mem.diagCalls
    /\ prepCalls' = mem.prepCalls

(***************************************************************************)
(* The sweeps the engines are constructed with.                            *)
(***************************************************************************)
Sweep(n, t, s, c, o) ==
    [n_modes |-> n, tunneling_values |-> t, superconducting_values |-> s,
     chemical_potential_values |-> c, occupied_orbitals_list |-> o]

\* two live engines: the same couplings on one mode and on two, and a sweep
\* whose second occupation pattern names a mode the chain does not have
Sweeps ==
    { Sweep(1, <<1>>, <<1>>, <<0>>, << <<>>, <<0>> >>),
      Sweep(2, <<1>>, <<1>>, <<0>>, << <<>> >>),
      Sweep(1, <<1>>, <<1>>, <<0>>, << <<>>, <<1>>, <<0>> >>) }

Construct(sw) ==
    /\ n_modes = [e \in Engines |-> sw[e].n_modes]
    /\ tunneling_values = [e \in Engines |-> sw[e].tunneling_values]
    /\ superconducting_values = [e \in Engines |-> sw[e].superconducting_values]
    /\ chemical_potential_values = [e \in Engines |-> sw[e].chemical_potential_values]
    /\ occupied_orbitals_list = [e \in Engines |-> sw[e].occupied_orbitals_list]
    /\ cache = <<>>
    /\ diagCalls = EmptyBag
    /\ prepCalls = EmptyBag
    /\ gen = [e \in Engines |-> "none"]
    /\ pos = [e \in Engines |-> 0]
    /\ out = [e \in Engines |-> <<>>]
    /\ touched = [e \in Engines |-> {}]
    /\ ret = NoCall
    /\ failed = [e \in Engines |-> FALSE]

Init == \E sw \in [Engines -> Sweeps] : Construct(sw)

(***************************************************************************)
(* The operations.                                                         *)
(***************************************************************************)
\* self._circuits(): a new generator object; no code of it has run yet
Start_circuits(self) ==
    /\ gen' = [gen EXCEPT ![self] = "running"]
    /\ pos' = [pos EXCEPT ![self] = 0]
    /\ out' = [out EXCEPT ![self] = <<>>]
    /\ touched' = [touched EXCEPT ![self] = {}]
    /\ UNCHANGED <<config, cache, diagCalls, prepCalls, ret, failed>>

\* a generator that builds every remaining circuit on the first next()
_circuits_Eager(self) ==
    LET recs == circuit_parameters(self)
        d == Drain(Memory, self, recs, pos[self] + 1, <<>>)
    IN  /\ gen[self] = "running"
        /\ pos[self] < Len(recs)
        /\ d.ret.kind = "list"
        /\ Commit(d.mem)
        /\ pos' = [pos EXCEPT ![self] = @ + 1]
        /\ touched' = [touched EXCEPT
                         ![self] = @ \cup {KeyOf(self, recs[i]) :
                                             i \in (pos[self] + 1)..Len(recs)}]
        /\ out' = [out EXCEPT ![self] = Append(@, d.ret.items[1])]
        /\ UNCHANGED <<config, gen, failed, ret>>

\* next() on the generator: one record is taken and its circuit yielded; an
\* exception ends the generator, and so does the end of the records
_circuits(self) ==
    LET recs == circuit_parameters(self)
        g == _generate_circuit(Memory, self, recs[pos[self] + 1])
    IN  /\ gen[self] = "running"
        /\ IF pos[self] >= Len(recs)
           THEN /\ gen' = [gen EXCEPT ![self] = "exhausted"]
                /\ UNCHANGED <<cache, diagCalls, prepCalls, pos, out, touched, failed>>
           ELSE /\ Commit(g.mem)
                /\ pos' = [pos EXCEPT ![self] = @ + 1]
                /\ touched' = [touched EXCEPT
                                 ![self] = @ \cup {KeyOf(self, recs[pos[self] + 1])}]
                /\ IF g.ret.kind = "raised"
                   THEN /\ gen' = [gen EXCEPT ![self] = "raised"]
                        /\ failed' = [failed EXCEPT ![self] = TRUE]
                        /\ out' = out
                   ELSE /\ out' = [out EXCEPT ![self] = Append(@, g.ret)]
                        /\ UNCHANGED <<gen, failed>>
        /\ UNCHANGED <<config, ret>>

\* circuits(): the whole pass at once
circuits(self) ==
    LET d == Drain(Memory, self, circuit_parameters(self), 1, <<>>)
    IN  /\ Commit(d.mem)
        /\ ret' = [call |-> "circuits", self |-> self, params |-> None,
                   value |-> d.ret]
        /\ failed' = [failed EXCEPT ![self] = @ \/ d.ret.kind = "raised"]
        /\ UNCHANGED <<config, gen, pos, out, touched>>

Bases == {"pauli", "fermionic"}

\* the records a caller hands to _generate_circuit itself: those of the
\* engine's sweep, with either basis kind
Requests(self) ==
    { [circuit_parameters(self)[i] EXCEPT !.measurement_basis = b] :
        i \in DOMAIN circuit_parameters(self), b \in Bases }

generate_circuit(self, circuit_params) ==
    LET g == _generate_circuit(Memory, self, circuit_params)
    IN  /\ Commit(g.mem)
        /\ ret' = [call |-> "_generate_circuit", self |-> self,
                   params |-> circuit_params, value |-> g.ret]
        /\ failed' = [failed EXCEPT ![self] = @ \/ g.ret.kind = "raised"]
        /\ UNCHANGED <<config, gen, pos, out, touched>>

Next ==
    \E self \in Engines :
        \/ Start_circuits(self)
        \/ _circuits(self)
        \/ circuits(self)
        \/ \E p \in Requests(self) : generate_circuit(self, p)

Spec == Init /\ [][Next]_vars

(***************************************************************************)
(* One engine sweeping every axis: passes by the generator and by          *)
(* circuits().                                                             *)
(***************************************************************************)
Idle == Sweep(1, <<1>>, <<1>>, <<0>>, << <<>> >>)

TunnelingChoices ==
    {<<a>> : a \in 1..MaxValue} \cup {<<a, b>> : a, b \in 1..MaxValue}

SweepChoices ==
    { Sweep(n, t, s, c, o) :
        n \in {1, 2}, t \in TunnelingChoices, s \in {<<1>>, <<1, 2>>},
        c \in {<<0, 1>>},
        o \in { << <<>> >>, << <<>>, <<0>> >>, << <<>>, <<1>>, <<0>> >> } }

InitSweep == \E sw \in SweepChoices : Construct([e \in Engines |-> IF e = 1 THEN sw ELSE Idle])

\* a generator is taken to its end before the next generator is made
NextSweep ==
    \E self \in {1} :
        \/ gen[self] # "running" /\ Start_circuits(self)
        \/ _circuits(self)
        \/ circuits(self)

SpecSweep == InitSweep /\ [][NextSweep]_vars

(***************************************************************************)
(* One engine whose sweep has one key more than the cache holds, passed    *)
(* over by the generator again and again.                                  *)
(***************************************************************************)
Large == Sweep(1, [i \in 1..(maxsize + 1) |-> i], <<1>>, <<0>>, << <<>> >>)

InitLarge == Construct([e \in Engines |-> IF e = 1 THEN Large ELSE Idle])

NextLarge ==
    \E self \in {1} :
        \/ gen[self] # "running" /\ Start_circuits(self)
        \/ _circuits(self)

SpecLarge == InitLarge /\ [][NextLarge]_vars

(***************************************************************************)
(* What the claims are stated with.                                        *)
(***************************************************************************)
Range(s) == {s[i] : i \in DOMAIN s}

\* no value twice in the sequence: as many values as places
Distinct(s) == Cardinality(Range(s)) = Len(s)

\* an occupation pattern of an n-mode chain: indices in [0, n), none twice
ValidOccupation(n, occ) ==
    /\ \A i \in DOMAIN occ : occ[i] >= 0 /\ occ[i] < n
    /\ Distinct(occ)

AllValid(e) ==
    \A i \in DOMAIN occupied_orbitals_list[e] :
        ValidOccupation(n_modes[e], occupied_orbitals_list[e][i])

AxesDistinct(e) ==
    /\ Distinct(tunneling_values[e])
    /\ Distinct(superconducting_values[e])
    /\ Distinct(chemical_potential_values[e])
    /\ Distinct(occupied_orbitals_list[e])
    /\ Distinct(measurement_pauli_strings(n_modes[e]))

\* the cross-product of the axes of engine e with its labels, as a set
CrossProduct(e) ==
    { CircuitParameters(t, s, c, o, "pauli", l) :
        t \in Range(tunneling_values[e]), s \in Range(superconducting_values[e]),
        c \in Range(chemical_potential_values[e]),
        o \in Range(occupied_orbitals_list[e]),
        l \in Range(measurement_pauli_strings(n_modes[e])) }

SweepSize(e) ==
    Len(tunneling_values[e]) * Len(superconducting_values[e])
        * Len(chemical_potential_values[e]) * Len(occupied_orbitals_list[e])
        * Len(measurement_pauli_strings(n_modes[e]))

ParamsOf(items) == [i \in DOMAIN items |-> items[i].metadata.params]

\* the record the fixed order puts at place i of a pass of engine e
ExpectedAt(e, i) ==
    LET L == measurement_pauli_strings(n_modes[e])
        nl == Len(L)
        no == Len(occupied_orbitals_list[e])
        nc == Len(chemical_potential_values[e])
        ns == Len(superconducting_values[e])
        k == i - 1
    IN  CircuitParameters(
            tunneling_values[e][(k \div (nl * no * nc * ns)) + 1],
            superconducting_values[e][((k \div (nl * no * nc)) % ns) + 1],
            chemical_potential_values[e][((k \div (nl * no)) % nc) + 1],
            occupied_orbitals_list[e][((k \div nl) % no) + 1],
            "pauli",
            L[(k % nl) + 1])

\* the base circuit and the circuit of record p on engine e, built afresh
ExpectedBase(e, p) ==
    FermionicGaussianState(
        diagonalizing_bogoliubov_transform(
            kitaev_hamiltonian(n_modes[e], p.tunneling, p.superconducting,
                               p.chemical_potential)),
        p.occupied_orbitals)

ExpectedCircuit(e, p) ==
    [kind |-> "circuit", base |-> ExpectedBase(e, p),
     measured |-> p.measurement_label, metadata |-> [params |-> p]]

ListedBy(e) == ret.call = "circuits" /\ ret.self = e /\ ret.value.kind = "list"

(***************************************************************************)
(* The claims.                                                             *)
(***************************************************************************)
\* C1, as stated: for any axes (of valid occupation patterns), a pass of
\* circuits() gives a list of |t| x |s| x |c| x |o| x |L| circuits whose
\* records are the whole cross-product, none of them twice.
C1_AnyAxes ==
    (ret.call = "circuits" /\ AllValid(ret.self)) =>
        /\ ret.value.kind = "list"
        /\ Len(ret.value.items) = SweepSize(ret.self)
        /\ Range(ParamsOf(ret.value.items)) = CrossProduct(ret.self)
        /\ Distinct(ParamsOf(ret.value.items))

\* C1, amended: when every occupation pattern of the sweep is valid, a pass of
\* circuits() gives a list of |t| x |s| x |c| x |o| x |L| circuits whose records
\* are the whole cross-product; no record appears twice when no axis repeats
\* a value.
C1_Enumeration ==
    (ret.call = "circuits" /\ AllValid(ret.self)) =>
        /\ ret.value.kind = "list"
        /\ Len(ret.value.items) = SweepSize(ret.self)
        /\ Range(ParamsOf(ret.value.items)) = CrossProduct(ret.self)
        /\ AxesDistinct(ret.self) => Distinct(ParamsOf(ret.value.items))

\* a complete pass over a sweep of two values on every coupling axis, three
\* valid patterns and three labels
C1_Witness ==
    /\ ListedBy(1)
    /\ AxesDistinct(1)
    /\ Len(ret.value.items) = 72
    /\ Cardinality(Range(ParamsOf(ret.value.items))) = 72

\* the (tunneling, superconducting, chemical_potential, occupied_orbitals)
\* of a record
TupleOf(p) ==
    <<p.tunneling, p.superconducting, p.chemical_potential, p.occupied_orbitals>>

\* the records sharing one tuple are next to each other: a tuple the pass has
\* left does not come back
Consecutive(recs) ==
    \A i \in 1..(Len(recs) - 1) :
        TupleOf(recs[i]) # TupleOf(recs[i + 1]) =>
            \A k \in (i + 2)..Len(recs) : TupleOf(recs[k]) # TupleOf(recs[i])

\* every pass follows the nested order, tunneling outermost and the label
\* fastest: place i holds the record of ExpectedAt
NestedOrder(e) ==
    /\ \A i \in DOMAIN out[e] : out[e][i].metadata.params = ExpectedAt(e, i)
    /\ ListedBy(e) =>
          \A i \in DOMAIN ret.value.items :
              ret.value.items[i].metadata.params = ExpectedAt(e, i)

\* two passes of one engine, the generator's and that of circuits(), whichever
\* came first: record for record the same, and as many records when both ran
\* to the end
SecondPassRepeats(e) ==
    ListedBy(e) =>
        /\ \A i \in DOMAIN out[e] :
              /\ i <= Len(ret.value.items)
              /\ out[e][i].metadata.params = ret.value.items[i].metadata.params
        /\ gen[e] = "exhausted" => Len(out[e]) = Len(ret.value.items)

\* C2, as stated: every pass emits the records in the one nested order, the
\* label fastest, so that all records sharing one (tunneling, superconducting,
\* chemical_potential, occupied_orbitals) are emitted consecutively, and a
\* second pass repeats the first exactly.
C2_ConsecutiveForAnyAxes ==
    \A e \in Engines :
        /\ NestedOrder(e)
        /\ Consecutive(ParamsOf(out[e]))
        /\ ListedBy(e) => Consecutive(ParamsOf(ret.value.items))
        /\ SecondPassRepeats(e)

\* C2, amended: every pass emits the records in the one nested order, the
\* label fastest, and a second pass repeats the first exactly; the records
\* sharing one (tunneling, superconducting, chemical_potential,
\* occupied_orbitals) are emitted consecutively when no axis repeats a value.
C2_FixedOrder ==
    \A e \in Engines :
        /\ NestedOrder(e)
        /\ AxesDistinct(e) =>
              /\ Consecutive(ParamsOf(out[e]))
              /\ ListedBy(e) => Consecutive(ParamsOf(ret.value.items))
        /\ SecondPassRepeats(e)

\* a generator pass to the end and a pass of circuits() over a sweep in which
\* every axis has more than one value and none repeats one
C2_Witness ==
    /\ ListedBy(1)
    /\ gen[1] = "exhausted"
    /\ AxesDistinct(1)
    /\ Len(out[1]) = Len(ret.value.items)
    /\ Len(tunneling_values[1]) = 2 /\ Len(superconducting_values[1]) = 2
    /\ Len(chemical_potential_values[1]) = 2 /\ Len(occupied_orbitals_list[1]) = 3
    /\ n_modes[1] = 2
    /\ out[1][1].metadata.params.measurement_label
          # out[1][2].metadata.params.measurement_label
    /\ out[1][1].metadata.params.occupied_orbitals
          = out[1][3].metadata.params.occupied_orbitals
    /\ out[1][3].metadata.params.occupied_orbitals
          # out[1][4].metadata.params.occupied_orbitals

\* C3, as stated: the state preparation is completed at most once for one
\* (self, tunneling, superconducting, chemical_potential, occupied_orbitals).
C3_PreparedOnce ==
    \A k \in BagToSet(prepCalls) : CopiesIn(k, prepCalls) <= 1

\* C4, as stated: a key whose base circuit was stored stays in the cache.
C4_NeverEvicts ==
    BagToSet(prepCalls) \subseteq CacheKeys(cache)

\* C5, as stated: the diagonalization runs at most once for one
\* (self, tunneling, superconducting, chemical_potential), whatever the
\* occupation patterns that share it.
C5_DiagonalizedOncePerTriple ==
    \A k1, k2 \in BagToSet(diagCalls) :
        (k1[1] = k2[1] /\ k1[2] = k2[2] /\ k1[3] = k2[3] /\ k1[4] = k2[4]) =>
            /\ k1 = k2
            /\ CopiesIn(k1, diagCalls) = 1

\* C6: the i-th circuit of a pass is the circuit of the i-th record of
\* circuit_parameters(): its metadata is that record and nothing else, its
\* measurement layer is the record's label, its base the record's base circuit;
\* a finished pass has one circuit per record.
C6_OneCircuitPerRecord ==
    \A e \in Engines :
        LET recs == circuit_parameters(e)
        IN  /\ Len(out[e]) <= Len(recs)
            /\ \A i \in DOMAIN out[e] : out[e][i] = ExpectedCircuit(e, recs[i])
            /\ gen[e] = "exhausted" => Len(out[e]) = Len(recs)
            /\ ListedBy(e) =>
                  /\ Len(ret.value.items) = Len(recs)
                  /\ \A i \in DOMAIN recs :
                        ret.value.items[i] = ExpectedCircuit(e, recs[i])

\* a generator taken to its end over a sweep of several keys and labels
C6_Witness ==
    /\ gen[1] = "exhausted"
    /\ Len(out[1]) >= 24
    /\ n_modes[1] = 2
    /\ \E i \in DOMAIN out[1] : out[1][i].base.occupied_orbitals = <<1>>

\* C7: a record whose occupation pattern names a mode >= n_modes raises and
\* gives no circuit; nothing is stored for its key; a pass stops at it with the
\* circuits of the records before it; and every valid record of the sweep
\* still gives the circuit it gives on a fresh engine.
C7_FailureIsLocal ==
    /\ \A i \in DOMAIN cache :
          ValidOccupation(n_modes[cache[i].key[1]], cache[i].key[5])
    /\ \A k \in BagToSet(prepCalls) : ValidOccupation(n_modes[k[1]], k[5])
    /\ ret.call = "_generate_circuit" =>
          IF ValidOccupation(n_modes[ret.self], ret.params.occupied_orbitals)
          THEN ret.params.measurement_basis = "pauli" =>
                  ret.value = ExpectedCircuit(ret.self, ret.params)
          ELSE ret.value.kind = "raised"
    /\ ret.call = "circuits" =>
          (ret.value.kind = "raised" <=> ~AllValid(ret.self))
    /\ \A e \in Engines :
          LET recs == circuit_parameters(e)
          IN  /\ gen[e] = "raised" =>
                    /\ ~ValidOccupation(n_modes[e], recs[pos[e]].occupied_orbitals)
                    /\ Len(out[e]) = pos[e] - 1
              /\ \A i \in DOMAIN out[e] : out[e][i] = ExpectedCircuit(e, recs[i])

\* after a pass of the engine has failed, the record behind the failing one is
\* generated
C7_Witness ==
    /\ ret.call = "_generate_circuit"
    /\ gen[ret.self] = "raised"
    /\ ~AllValid(ret.self)
    /\ ret.params.occupied_orbitals = <<0>>
    /\ ret.value.kind = "circuit"
    /\ \E k \in BagToSet(diagCalls) :
          k[1] = ret.self /\ ~ValidOccupation(n_modes[k[1]], k[5])

\* C8, as stated: _generate_circuit never ends normally without a circuit; a
\* basis kind other than "pauli" is rejected with an error.
C8_UnknownBasisRejected ==
    ret.call = "_generate_circuit" =>
        /\ ret.value.kind # "None"
        /\ ret.params.measurement_basis # "pauli" => ret.value.kind = "raised"

\* C9: a next() on the generator does the work of the one record it takes:
\* it runs _base_circuit's body for no key but that record's, and stores at
\* most that one entry.
C9_Lazy ==
    [][\A e \in Engines :
          (gen[e] = "running" /\ pos'[e] = pos[e] + 1) =>
              /\ BagToSet(diagCalls') \ BagToSet(diagCalls)
                    \subseteq {KeyOf(e, circuit_parameters(e)[pos[e] + 1])}
              /\ BagCardinality(diagCalls') <= BagCardinality(diagCalls) + 1
              /\ CacheKeys(cache') \ CacheKeys(cache)
                    \subseteq {KeyOf(e, circuit_parameters(e)[pos[e] + 1])}
              /\ Len(out'[e]) <= Len(out[e]) + 1]_vars

\* a generator part of the way through its records, a later key never built
C9_Witness ==
    \E e \in Engines :
        /\ gen[e] = "running"
        /\ Len(out[e]) >= 1
        /\ \E i \in DOMAIN circuit_parameters(e) :
              /\ i > pos[e]
              /\ KeyOf(e, circuit_parameters(e)[i]) \notin BagToSet(diagCalls)
              /\ KeyOf(e, circuit_parameters(e)[i]) \notin CacheKeys(cache)

\* C10: an engine is never handed a base circuit another engine built: a valid
\* request of its own sweep gives a circuit, and the base of every circuit it
\* gives has its own n_modes qubits and is the base it builds itself.
C10_NoLeakAcrossEngines ==
    /\ ret.call = "_generate_circuit" =>
          /\ (/\ ValidOccupation(n_modes[ret.self], ret.params.occupied_orbitals)
              /\ ret.params.measurement_basis = "pauli") =>
                  ret.value.kind = "circuit"
          /\ ret.value.kind = "circuit" =>
                /\ ret.value.base.n_qubits = n_modes[ret.self]
                /\ ret.value.base = ExpectedBase(ret.self, ret.params)
    /\ \A e \in Engines : \A i \in DOMAIN out[e] :
          /\ out[e][i].base.n_qubits = n_modes[e]
          /\ out[e][i].base = ExpectedBase(e, out[e][i].metadata.params)
    /\ \A e \in Engines : ListedBy(e) =>
          \A i \in DOMAIN ret.value.items :
              ret.value.items[i].base.n_qubits = n_modes[e]

\* both engines hold an entry for the same couplings and pattern, built with
\* different n_modes, and the second one to ask has been given its own
C10_Witness ==
    /\ ret.call = "_generate_circuit"
    /\ ret.value.kind = "circuit"
    /\ \E i, j \in DOMAIN cache :
          /\ i < j
          /\ cache[j].key[1] = ret.self
          /\ cache[i].key[1] # cache[j].key[1]
          /\ \A f \in 2..5 : cache[i].key[f] = cache[j].key[f]
          /\ cache[j].key[5] = ret.params.occupied_orbitals
          /\ cache[i].value.n_qubits # cache[j].value.n_qubits

====
